---- MODULE Spec2Model ----
(***************************************************************************)
(* Model of classify_sentiment (app.py): a lexicon-and-heuristics          *)
(* sentiment classifier.  A string is the sequence of its code points;     *)
(* an ASCII code point is written as the character itself, any other one   *)
(* as "U+XXXX".  A Python float is an IEEE-754 double, held exactly as an   *)
(* integer count of units of 2^-55 split into two limbs.                   *)
(***************************************************************************)
EXTENDS Integers, Sequences, FiniteSets, TLC

\* ------------------------------------------------------------------------
\* Lexicons
\* ------------------------------------------------------------------------

\* POS_WORDS (app.py lines 15-25); each word is the sequence of its characters
POS_WORDS ==
    { <<"g", "o", "o", "d">>,
      <<"g", "r", "e", "a", "t">>,
      <<"e", "x", "c", "e", "l", "l", "e", "n", "t">>,
      <<"a", "w", "e", "s", "o", "m", "e">>,
      <<"a", "m", "a", "z", "i", "n", "g">>,
      <<"f", "a", "n", "t", "a", "s", "t", "i", "c">>,
      <<"l", "o", "v", "e">>,
      <<"l", "i", "k", "e">>,
      <<"l", "i", "k", "e", "d">>,
      <<"l", "i", "k", "e", "s">>,
      <<"e", "n", "j", "o", "y">>,
      <<"e", "n", "j", "o", "y", "e", "d">>,
      <<"w", "o", "n", "d", "e", "r", "f", "u", "l">>,
      <<"p", "e", "r", "f", "e", "c", "t">>,
      <<"n", "i", "c", "e">>,
      <<"s", "w", "e", "e", "t">>,
      <<"t", "h", "a", "n", "k", "s">>,
      <<"t", "h", "a", "n", "k">>,
      <<"a", "p", "p", "r", "e", "c", "i", "a", "t", "e">>,
      <<"g", "l", "a", "d">>,
      <<"h", "a", "p", "p", "y">>,
      <<"j", "o", "y">>,
      <<"t", "h", "r", "i", "l", "l", "e", "d">>,
      <<"d", "e", "l", "i", "g", "h", "t", "e", "d">>,
      <<"c", "o", "o", "l">>,
      <<"w", "o", "w">>,
      <<"l", "i", "t">>,
      <<"f", "i", "r", "e">>,
      <<"d", "o", "p", "e">>,
      <<"g", "o", "a", "t", "e", "d">>,
      <<"p", "o", "g">>,
      <<"b", "a", "s", "e", "d">>,
      <<"l", "e", "g", "i", "t">>,
      <<"c", "l", "u", "t", "c", "h">>,
      <<"w", "i", "n">>,
      <<"w", "i", "n", "n", "i", "n", "g">>,
      <<"w">>,
      <<"s", "i", "c", "k">>,
      <<"i", "n", "s", "a", "n", "e">>,
      <<"c", "r", "a", "z", "y">>,
      <<"r", "i", "d", "i", "c", "u", "l", "o", "u", "s">>,
      <<"w", "i", "l", "d">>,
      <<"c", "h", "e", "f", "'", "s">>,
      <<"k", "i", "s", "s">>,
      <<"s", "l", "a", "p", "s">>,
      <<"b", "a", "n", "g", "e", "r">> }

\* NEG_WORDS (app.py lines 27-35); each word is the sequence of its characters
NEG_WORDS ==
    { <<"b", "a", "d">>,
      <<"a", "w", "f", "u", "l">>,
      <<"t", "e", "r", "r", "i", "b", "l", "e">>,
      <<"h", "o", "r", "r", "i", "b", "l", "e">>,
      <<"h", "a", "t", "e">>,
      <<"h", "a", "t", "e", "d">>,
      <<"d", "i", "s", "l", "i", "k", "e">>,
      <<"d", "i", "s", "l", "i", "k", "e", "d">>,
      <<"w", "o", "r", "s", "e">>,
      <<"w", "o", "r", "s", "t">>,
      <<"a", "n", "n", "o", "y", "i", "n", "g">>,
      <<"s", "t", "u", "p", "i", "d">>,
      <<"d", "u", "m", "b">>,
      <<"u", "s", "e", "l", "e", "s", "s">>,
      <<"b", "r", "o", "k", "e", "n">>,
      <<"b", "u", "g", "g", "y">>,
      <<"a", "n", "g", "r", "y">>,
      <<"m", "a", "d">>,
      <<"u", "p", "s", "e", "t">>,
      <<"s", "a", "d">>,
      <<"d", "i", "s", "a", "p", "p", "o", "i", "n", "t", "e", "d">>,
      <<"d", "i", "s", "a", "p", "p", "o", "i", "n", "t", "i", "n", "g">>,
      <<"c", "r", "i", "n", "g", "e">>,
      <<"g", "r", "o", "s", "s">>,
      <<"s", "u", "c", "k", "s">>,
      <<"s", "u", "c", "k", "e", "d">>,
      <<"s", "u", "c", "k", "y">>,
      <<"l", "a", "m", "e">>,
      <<"m", "e", "h">>,
      <<"t", "r", "a", "s", "h">>,
      <<"m", "i", "d">>,
      <<"c", "a", "p">>,
      <<"s", "a", "l", "t", "y">>,
      <<"r", "a", "t", "i", "o">>,
      <<"c", "o", "p", "e">>,
      <<"d", "o", "w", "n", "b", "a", "d">>,
      <<"f", "l", "a", "k", "e">>,
      <<"f", "l", "a", "k", "y">>,
      <<"w", "e", "a", "k">>,
      <<"f", "a", "i", "l">>,
      <<"l">>,
      <<"w", "t", "f">>,
      <<"s", "m", "h">>,
      <<"b", "s">> }

\* NEGATORS (app.py lines 38-41); each word is the sequence of its characters
NEGATORS ==
    { <<"n", "o", "t">>,
      <<"n", "o">>,
      <<"n", "e", "v", "e", "r">>,
      <<"h", "a", "r", "d", "l", "y">>,
      <<"s", "c", "a", "r", "c", "e", "l", "y">>,
      <<"b", "a", "r", "e", "l", "y">>,
      <<"w", "i", "t", "h", "o", "u", "t">>,
      <<"a", "i", "n", "'", "t">>,
      <<"i", "s", "n", "'", "t">>,
      <<"w", "a", "s", "n", "'", "t">>,
      <<"d", "o", "n", "'", "t">>,
      <<"d", "o", "e", "s", "n", "'", "t">>,
      <<"d", "i", "d", "n", "'", "t">>,
      <<"c", "a", "n", "'", "t">>,
      <<"c", "o", "u", "l", "d", "n", "'", "t">>,
      <<"w", "o", "n", "'", "t">>,
      <<"w", "o", "u", "l", "d", "n", "'", "t">>,
      <<"s", "h", "o", "u", "l", "d", "n", "'", "t">>,
      <<"l", "a", "c", "k">>,
      <<"l", "a", "c", "k", "i", "n", "g">> }

\* INTENSIFIERS (app.py lines 44-44); each word is the sequence of its characters
INTENSIFIERS ==
    { <<"v", "e", "r", "y">>,
      <<"r", "e", "a", "l", "l", "y">>,
      <<"s", "o">>,
      <<"s", "u", "p", "e", "r">>,
      <<"t", "o", "t", "a", "l", "l", "y">>,
      <<"a", "b", "s", "o", "l", "u", "t", "e", "l", "y">>,
      <<"i", "n", "s", "a", "n", "e", "l", "y">>,
      <<"c", "r", "a", "z", "y">>,
      <<"h", "e", "l", "l", "a">>,
      <<"d", "e", "a", "d", "a", "s", "s">>,
      <<"f", "r">>,
      <<"f", "o", "r">>,
      <<"r", "e", "a", "l">> }

\* DIMINISHERS (app.py lines 45-45); each word is the sequence of its characters
DIMINISHERS ==
    { <<"k", "i", "n", "d", "a">>,
      <<"k", "i", "n", "d">>,
      <<"o", "f">>,
      <<"s", "o", "r", "t", "a">>,
      <<"s", "o", "r", "t">>,
      <<"s", "l", "i", "g", "h", "t", "l", "y">>,
      <<"s", "o", "m", "e", "w", "h", "a", "t">>,
      <<"a">>,
      <<"b", "i", "t">>,
      <<"l", "o", "w", "k", "e", "y">> }

\* POS_EMOJI (app.py lines 48-48); each entry is the sequence of its code points
POS_EMOJI ==
    { <<"U+1F642">>,
      <<"U+1F60A">>,
      <<"U+1F604">>,
      <<"U+1F603">>,
      <<"U+1F601">>,
      <<"U+1F60D">>,
      <<"U+1F970">>,
      <<"U+2764", "U+FE0F">>,
      <<"U+1F496">>,
      <<"U+1F525">>,
      <<"U+2728">>,
      <<"U+1F44D">>,
      <<"U+1F44F">>,
      <<"U+1F64C">>,
      <<"U+1F602">>,
      <<"U+1F923">>,
      <<"U+1F60E">>,
      <<"U+2705">>,
      <<"U+1F4AF">> }

\* NEG_EMOJI (app.py lines 49-49); each entry is the sequence of its code points
NEG_EMOJI ==
    { <<"U+2639">>,
      <<"U+1F641">>,
      <<"U+1F61E">>,
      <<"U+1F620">>,
      <<"U+1F621">>,
      <<"U+1F494">>,
      <<"U+1F44E">>,
      <<"U+1F622">>,
      <<"U+1F62D">>,
      <<"U+1F92E">>,
      <<"U+1F922">>,
      <<"U+1F624">>,
      <<"U+1F612">>,
      <<"U+1F613">>,
      <<"U+1F615">>,
      <<"U+274C">> }

\* POS_EVENT_WORDS (app.py lines 52-55); each word is the sequence of its characters
POS_EVENT_WORDS ==
    { <<"b", "o", "u", "g", "h", "t">>,
      <<"b", "u", "y">>,
      <<"g", "o", "t">>,
      <<"g", "i", "f", "t">>,
      <<"g", "i", "f", "t", "i", "n", "g">>,
      <<"s", "u", "r", "p", "r", "i", "s", "e">>,
      <<"t", "r", "e", "a", "t">>,
      <<"t", "r", "e", "a", "t", "e", "d">>,
      <<"h", "e", "l", "p", "e", "d">>,
      <<"p", "r", "o", "m", "o", "t", "e", "d">>,
      <<"p", "a", "s", "s", "e", "d">>,
      <<"w", "i", "n">>,
      <<"w", "o", "n">>,
      <<"u", "p", "g", "r", "a", "d", "e">>,
      <<"r", "a", "i", "s", "e">>,
      <<"l", "u", "n", "c", "h">>,
      <<"d", "i", "n", "n", "e", "r">>,
      <<"c", "o", "f", "f", "e", "e">> }
\* The five context-sensitive slang words named at line 109.
AMBIGUOUS ==
    { <<"s", "i", "c", "k">>, <<"c", "r", "a", "z", "y">>, <<"i", "n", "s", "a", "n", "e">>,
      <<"r", "i", "d", "i", "c", "u", "l", "o", "u", "s">>, <<"w", "i", "l", "d">> }

\* The words whose positive hit arms the ellipsis dampening (line 159).
SARCASM_WORDS ==
    { <<"g", "r", "e", "a", "t">>, <<"a", "w", "e", "s", "o", "m", "e">>,
      <<"a", "m", "a", "z", "i", "n", "g">>, <<"p", "e", "r", "f", "e", "c", "t">>,
      <<"n", "i", "c", "e">> }

\* ------------------------------------------------------------------------
\* Characters and strings
\* ------------------------------------------------------------------------

LowerLetters ==
    { "a", "b", "c", "d", "e", "f", "g", "h", "i", "j", "k", "l", "m",
      "n", "o", "p", "q", "r", "s", "t", "u", "v", "w", "x", "y", "z" }

UpperLetters ==
    { "A", "B", "C", "D", "E", "F", "G", "H", "I", "J", "K", "L", "M",
      "N", "O", "P", "Q", "R", "S", "T", "U", "V", "W", "X", "Y", "Z" }

Digits == { "0", "1", "2", "3", "4", "5", "6", "7", "8", "9" }

\* str.isspace / the regex class \s, on the code points used here.
IsSpace(c) == c \in { " ", "\t", "\n", "\r" }

\* The regex class \w: letters, digits and the underscore.
IsWordChar(c) == c \in LowerLetters \cup UpperLetters \cup Digits \cup { "_" }

\* The regex class [A-Za-z'] of the word pattern.
IsWordPatternChar(c) == c \in LowerLetters \cup UpperLetters \cup { "'" }

\* str.lower on one code point.
LowerChar(c) ==
    CASE c = "A" -> "a" [] c = "B" -> "b" [] c = "C" -> "c" [] c = "D" -> "d"
      [] c = "E" -> "e" [] c = "F" -> "f" [] c = "G" -> "g" [] c = "H" -> "h"
      [] c = "I" -> "i" [] c = "J" -> "j" [] c = "K" -> "k" [] c = "L" -> "l"
      [] c = "M" -> "m" [] c = "N" -> "n" [] c = "O" -> "o" [] c = "P" -> "p"
      [] c = "Q" -> "q" [] c = "R" -> "r" [] c = "S" -> "s" [] c = "T" -> "t"
      [] c = "U" -> "u" [] c = "V" -> "v" [] c = "W" -> "w" [] c = "X" -> "x"
      [] c = "Y" -> "y" [] c = "Z" -> "z" [] OTHER -> c

\* text.lower()
Lower(s) == [k \in 1..Len(s) |-> LowerChar(s[k])]

\* Python slice s[a:b] with 0-based, end-exclusive, clipped indices.
Slice(s, a, b) ==
    LET lo == IF a < 0 THEN 0 ELSE a
        hi == IF b > Len(s) THEN Len(s) ELSE b
    IN  IF hi <= lo THEN << >> ELSE SubSeq(s, lo + 1, hi)

\* p occurs in s starting at 1-based position k.
MatchAt(s, p, k) ==
    /\ k >= 1
    /\ k + Len(p) - 1 <= Len(s)
    /\ \A j \in 1..Len(p) : s[k + j - 1] = p[j]

\* The Python test  p in s  on strings: p is a substring of s.
Contains(s, p) == \E k \in 1..(Len(s) - Len(p) + 1) : MatchAt(s, p, k)

\* 1-based position of the first occurrence of p in s (p occurs in s).
FirstIndex(s, p) ==
    CHOOSE k \in 1..(Len(s) - Len(p) + 1) :
        /\ MatchAt(s, p, k)
        /\ \A j \in 1..(k - 1) : ~MatchAt(s, p, j)

\* s.split(p, 1)[1]: what follows the first occurrence of p.
AfterFirst(s, p) == Slice(s, FirstIndex(s, p) + Len(p) - 1, Len(s))

\* s.strip(): leading and trailing whitespace removed.
RECURSIVE LStrip(_)
LStrip(s) == IF s # << >> /\ IsSpace(Head(s)) THEN LStrip(Tail(s)) ELSE s

RECURSIVE RStrip(_)
RStrip(s) ==
    IF s # << >> /\ IsSpace(s[Len(s)]) THEN RStrip(SubSeq(s, 1, Len(s) - 1)) ELSE s

Strip(s) == LStrip(RStrip(s))

\* s.count(c) for a single code point c.
Count(s, c) == Cardinality({ k \in 1..Len(s) : s[k] = c })

\* re.findall(r"[A-Za-z']+", s): the maximal runs of word-pattern characters,
\* left to right.  cur is the run being read.
RECURSIVE FindWords(_, _)
FindWords(s, cur) ==
    IF s = << >>
    THEN IF cur = << >> THEN << >> ELSE << cur >>
    ELSE IF IsWordPatternChar(Head(s))
         THEN FindWords(Tail(s), Append(cur, Head(s)))
         ELSE IF cur = << >>
              THEN FindWords(Tail(s), << >>)
              ELSE << cur >> \o FindWords(Tail(s), << >>)

\* " ".join(ws)
RECURSIVE Join(_)
Join(ws) ==
    IF ws = << >> THEN << >>
    ELSE IF Len(ws) = 1 THEN ws[1]
    ELSE ws[1] \o << " ">> \o Join(Tail(ws))

\* contains_any (lines 67-68): some vocabulary entry is a substring of s.
contains_any(s, vocab) == \E w \in vocab : Contains(s, w)

\* A regex word boundary \b between positions k and k+1 of s (k = 0 is the
\* start, k = Len(s) the end): exactly one side is a word character.
WordBoundary(s, k) ==
    LET before == k >= 1 /\ IsWordChar(s[k])
        after == k < Len(s) /\ IsWordChar(s[k + 1])
    IN  before # after

\* ------------------------------------------------------------------------
\* Python floats (IEEE-754 binary64, round-to-nearest-even)
\*
\* A double x of magnitude below 32 that is a multiple of 2^-55 is the record
\* [h, l] with x = (h * 2^30 + l) * 2^-55 and 0 <= l < 2^30.  Every literal
\* of the program (0.2 is the finest) and hence every score is such a value.
\* ------------------------------------------------------------------------

TwoP15 == 2 ^ 15
TwoP23 == 2 ^ 23
TwoP30 == 2 ^ 30

FNorm(h, l) == [h |-> h + (l \div TwoP30), l |-> l % TwoP30]

\* Exact sum and negation of two such values (no rounding).
ExactAdd(a, b) == FNorm(a.h + b.h, a.l + b.l)

FNeg(a) == IF a.l = 0 THEN [h |-> -a.h, l |-> 0] ELSE [h |-> -a.h - 1, l |-> TwoP30 - a.l]

FIsNeg(a) == a.h < 0

FAbs(a) == IF FIsNeg(a) THEN FNeg(a) ELSE a

\* a >= b and a <= b on doubles.
FGe(a, b) == a.h > b.h \/ (a.h = b.h /\ a.l >= b.l)
FLe(a, b) == a.h < b.h \/ (a.h = b.h /\ a.l <= b.l)
FGt(a, b) == ~FLe(a, b)

\* Spacing, in units of 2^-55, of the doubles around a magnitude whose high
\* limb is h: 1 below 0.25, doubling with each binade above.
RECURSIVE Quantum(_)
Quantum(h) == IF h < TwoP23 THEN 1 ELSE 2 * Quantum(h \div 2)

\* Round a non-negative exact value to the nearest double, ties to even.
RoundMag(m) ==
    LET q == Quantum(m.h)
        r == m.l % q
        down == m.l - r
        up == (2 * r > q) \/ (2 * r = q /\ (down \div q) % 2 = 1)
    IN  FNorm(m.h, IF up THEN down + q ELSE down)

FRound(a) == IF FIsNeg(a) THEN FNeg(RoundMag(FNeg(a))) ELSE RoundMag(a)

\* The float operations  a + b  and  a - b.
FAdd(a, b) == FRound(ExactAdd(a, b))
FSub(a, b) == FRound(ExactAdd(a, FNeg(b)))

\* a / 2, exact (a is an even count of units wherever this is used).
FHalf(a) == [h |-> a.h \div 2, l |-> (a.h % 2) * (TwoP30 \div 2) + (a.l \div 2)]

\* The float literals of the program.
D_0_0 == [h |-> 0, l |-> 0]
D_0_2 == [h |-> 6710886, l |-> 429496730]
D_0_4 == [h |-> 13421772, l |-> 858993460]
D_0_5 == [h |-> 16777216, l |-> 0]
D_0_6 == [h |-> 20132659, l |-> 214748364]
D_0_65 == [h |-> 21810380, l |-> 858993460]
D_1_0 == [h |-> 33554432, l |-> 0]
D_1_5 == [h |-> 50331648, l |-> 0]

\* The float product  a * b  where a is one of 1.0, -1.0, 1.5, -1.5 (the only
\* values base holds when it is scaled): |a| * b is b or b + b/2, rounded once.
FMul(a, b) ==
    LET mag == IF FAbs(a) = D_1_0 THEN b ELSE FRound(ExactAdd(b, FHalf(b)))
    IN  IF FIsNeg(a) THEN FNeg(mag) ELSE mag

\* The product  n * b  of a small non-negative int n and a float b.
RECURSIVE ExactTimes(_, _)
ExactTimes(n, b) == IF n = 0 THEN D_0_0 ELSE ExactAdd(b, ExactTimes(n - 1, b))

IntMul(n, b) == FRound(ExactTimes(n, b))

\* round(a, 3), as the signed count of thousandths it denotes: the exact
\* value times 1000 / 2^55 = 125 / 2^52, rounded half to even.  The product
\* is formed on 15-bit limbs.
Round3Mag(m) ==
    LET a0 == m.l % TwoP15
        a1 == m.l \div TwoP15
        a2 == m.h % TwoP15
        a3 == m.h \div TwoP15
        c0 == a0 * 125
        c1 == a1 * 125 + (c0 \div TwoP15)
        c2 == a2 * 125 + (c1 \div TwoP15)
        c3 == a3 * 125 + (c2 \div TwoP15)
        low == (c0 % TwoP15) + (c1 % TwoP15) + (c2 % TwoP15)
        quo == c3 \div 128
        rem == c3 % 128
        up == rem > 64 \/ (rem = 64 /\ (low > 0 \/ quo % 2 = 1))
    IN  IF up THEN quo + 1 ELSE quo

Round3(a) == IF FIsNeg(a) THEN -Round3Mag(FNeg(a)) ELSE Round3Mag(a)

\* ------------------------------------------------------------------------
\* Literal strings of classify_sentiment
\* ------------------------------------------------------------------------

S_shut_up == <<"s", "h", "u", "t", " ", "u", "p">>
S_not == <<"n", "o", "t">>
S_bad == <<"b", "a", "d">>
S_good == <<"g", "o", "o", "d">>
S_so == <<"s", "o">>

\* The alternatives of the disbelief pattern (line 92).
DISBELIEF_MARKERS ==
    { <<"d", "i", "d", " ", "y", "o", "u", " ", "r", "e", "a", "l", "l", "y">>,
      <<"f", "o", "r", " ", "r", "e", "a", "l">>,
      <<"n", "o", " ", "w", "a", "y">>,
      <<"f", "r">> }

TAG_excited ==
    <<"s", "h", "u", "t", " ", "u", "p", "!", " ", "(", "e", "x", "c", "i", "t", "e", "d",
      " ", "d", "i", "s", "b", "e", "l", "i", "e", "f", ")">>
TAG_harsh == <<"s", "h", "u", "t", " ", "u", "p", " ", "(", "h", "a", "r", "s", "h", ")">>
TAG_not_bad == <<"n", "o", "t", " ", "b", "a", "d">>
TAG_not_good == <<"n", "o", "t", " ", "g", "o", "o", "d">>
NEGATED_PREFIX == <<"n", "e", "g", "a", "t", "e", "d", ":">>

\* ------------------------------------------------------------------------
\* Patterns
\* ------------------------------------------------------------------------

\* re.search(r"(did you really|for real|no way|fr)\b", s)
DisbeliefSearch(s) ==
    \E p \in DISBELIEF_MARKERS : \E k \in 1..Len(s) :
        MatchAt(s, p, k) /\ WordBoundary(s, k + Len(p) - 1)

\* s[k..] begins with one or more whitespace characters followed by p; the
\* result is the set of positions just past p for every such reading.
SpacesThen(s, k, p) ==
    { e \in (k + 1)..(Len(s) + 1) :
        \E m \in 1..(Len(s) - k + 1) :
            /\ \A j \in k..(k + m - 1) : j <= Len(s) /\ IsSpace(s[j])
            /\ MatchAt(s, p, k + m)
            /\ e = k + m + Len(p) }

\* re.search(r"\bnot\s+bad\b", s)
NotBadSearch(s) ==
    \E k \in 1..Len(s) :
        /\ WordBoundary(s, k - 1)
        /\ MatchAt(s, S_not, k)
        /\ \E e \in SpacesThen(s, k + Len(S_not), S_bad) : WordBoundary(s, e - 1)

\* re.search(r"\bnot\s+(so\s+)?good\b", s)
NotGoodSearch(s) ==
    \E k \in 1..Len(s) :
        /\ WordBoundary(s, k - 1)
        /\ MatchAt(s, S_not, k)
        /\ \/ \E e \in SpacesThen(s, k + Len(S_not), S_good) : WordBoundary(s, e - 1)
           \/ \E m \in SpacesThen(s, k + Len(S_not), S_so) :
                  \E e \in SpacesThen(s, m, S_good) : WordBoundary(s, e - 1)

\* ELLIPSIS_RE.search(s) (line 58): s ends in three dots or in the glyph.
EllipsisSearch(s) ==
    \/ Len(s) >= 3 /\ SubSeq(s, Len(s) - 2, Len(s)) = <<".", ".", ".">>
    \/ Len(s) >= 1 /\ s[Len(s)] = "U+2026"

Range(s) == { s[k] : k \in 1..Len(s) }

\* ------------------------------------------------------------------------
\* The steps of classify_sentiment, as functions of its local variables
\* ------------------------------------------------------------------------

\* not text or not text.strip()  (line 76)
IsBlank(t) == t = << >> \/ Strip(t) = << >>

\* The locals before the first assignment.
NoLocals ==
    [ original |-> << >>, lowered |-> << >>, words |-> << >>, score |-> D_0_0,
      pos_hits |-> << >>, neg_hits |-> << >>, flipped_hits |-> << >>,
      intens_hits |-> << >>, dim_hits |-> << >>, emo_hits |-> << >>,
      i |-> 0, base |-> D_0_0, label |-> "" ]

\* Lines 79-85.  (toks, line 81, is never read.)
Setup(t) ==
    LET low == Lower(t)
        found == FindWords(low, << >>)
    IN  [ NoLocals EXCEPT !.original = t, !.lowered = low,
                          !.words = [k \in 1..Len(found) |-> Lower(found[k])] ]

\* Lines 89-99.
ShutUpIdiom(st) ==
    IF Contains(st.lowered, S_shut_up)
    THEN LET after == AfterFirst(st.lowered, S_shut_up)
         IN  IF DisbeliefSearch(after) /\ contains_any(after, POS_EVENT_WORDS)
             THEN [st EXCEPT !.score = FAdd(st.score, D_1_5),
                             !.pos_hits = Append(st.pos_hits, TAG_excited)]
             ELSE IF ~contains_any(after, POS_EVENT_WORDS)
                  THEN [st EXCEPT !.score = FSub(st.score, D_0_2),
                                  !.neg_hits = Append(st.neg_hits, TAG_harsh)]
                  ELSE st
    ELSE st

\* Lines 109-112: the forward-context test on the word at 0-based index i.
ForwardContext(st, i) ==
    \/ contains_any(Join(Slice(st.words, i + 1, i + 6)), POS_EVENT_WORDS \cup POS_WORDS)
    \/ Contains(Slice(st.original, i, i + 80), <<"!">>)

\* Lines 105-112: w_is_pos and w_is_neg for the word at index i.
WIsPos(st, i) ==
    LET w == st.words[i + 1]
    IN  IF w \in AMBIGUOUS /\ ForwardContext(st, i) THEN TRUE ELSE w \in POS_WORDS

WIsNeg(st, i) ==
    LET w == st.words[i + 1]
    IN  IF w \in AMBIGUOUS /\ ForwardContext(st, i) THEN FALSE ELSE w \in NEG_WORDS

\* Line 102.
window == 3

WindowSlice_Mut(st, i) == Slice(st.words, IF i - window - 1 > 0 THEN i - window - 1 ELSE 0, i)

\* Lines 122-123: the words before index i, at most window of them.
WindowSlice(st, i) == Slice(st.words, IF i - window > 0 THEN i - window ELSE 0, i)

HasNegator(st, i) == \E t \in Range(WindowSlice(st, i)) : t \in NEGATORS
HasIntens(st, i) == \E t \in Range(WindowSlice(st, i)) : t \in INTENSIFIERS
HasDim(st, i) == \E t \in Range(WindowSlice(st, i)) : t \in DIMINISHERS

BaseOf_Mut(st, i) ==
    LET b1 == IF WIsPos(st, i) THEN D_1_0 ELSE FNeg(D_1_0)
        b2 == IF HasNegator(st, i) THEN FNeg(b1) ELSE b1
        b3 == IF HasIntens(st, i) THEN FMul(b2, D_1_5) ELSE b2
        b4 == IF HasDim(st, i) THEN FMul(b2, D_0_65) ELSE b3
    IN  IF WIsPos(st, i) \/ WIsNeg(st, i) THEN b4 ELSE D_0_0

\* Lines 114-138: base for the word at index i (0 for a word that is skipped).
BaseOf(st, i) ==
    LET b1 == IF WIsPos(st, i) THEN D_1_0 ELSE FNeg(D_1_0)
        b2 == IF HasNegator(st, i) THEN FNeg(b1) ELSE b1
        b3 == IF HasIntens(st, i) THEN FMul(b2, D_1_5) ELSE b2
        b4 == IF HasDim(st, i) THEN FMul(b3, D_0_65) ELSE b3
    IN  IF WIsPos(st, i) \/ WIsNeg(st, i) THEN b4 ELSE D_0_0

\* Lines 103-141: one iteration of the scoring loop, at index st.i.
ScoreWord(st) ==
    LET i == st.i
        w == st.words[i + 1]
        b == BaseOf(st, i)
    IN  IF ~(WIsPos(st, i) \/ WIsNeg(st, i))
        THEN [st EXCEPT !.i = i + 1, !.base = b]
        ELSE [st EXCEPT
                !.i = i + 1,
                !.base = b,
                !.flipped_hits = IF HasNegator(st, i)
                                 THEN Append(@, NEGATED_PREFIX \o w) ELSE @,
                !.intens_hits = IF HasIntens(st, i) THEN Append(@, w) ELSE @,
                !.dim_hits = IF HasDim(st, i) THEN Append(@, w) ELSE @,
                !.score = FAdd(@, b),
                !.pos_hits = IF FGt(b, D_0_0) THEN Append(@, w) ELSE @,
                !.neg_hits = IF FGt(b, D_0_0) THEN @ ELSE Append(@, w)]

\* Lines 144-150: the emoji loop over the code points of s.
RECURSIVE EmojiLoop(_, _)
EmojiLoop(s, acc) ==
    IF s = << >> THEN acc
    ELSE LET ch == Head(s)
         IN  IF << ch >> \in POS_EMOJI
             THEN EmojiLoop(Tail(s), [score |-> FAdd(acc.score, D_0_6),
                                      emo_hits |-> Append(acc.emo_hits, ch)])
             ELSE IF << ch >> \in NEG_EMOJI
                  THEN EmojiLoop(Tail(s), [score |-> FSub(acc.score, D_0_6),
                                           emo_hits |-> Append(acc.emo_hits, ch)])
                  ELSE EmojiLoop(Tail(s), acc)

EmojiPass(st) ==
    LET r == EmojiLoop(st.original, [score |-> st.score, emo_hits |-> st.emo_hits])
    IN  [st EXCEPT !.score = r.score, !.emo_hits = r.emo_hits]

\* Lines 153-155.
ExclamationBoost(st) ==
    LET exclamations == Count(st.original, "!")
    IN  IF exclamations # 0
        THEN [st EXCEPT !.score =
                 FAdd(@, IntMul(IF exclamations < 3 THEN exclamations ELSE 3, D_0_2))]
        ELSE st

EllipsisDampen_Mut(st) ==
    IF EllipsisSearch(Strip(st.original))
       /\ \E w \in SARCASM_WORDS : w \in Range(st.words)
    THEN [st EXCEPT !.score = FSub(@, D_0_4)]
    ELSE st

EllipsisDampen_AnyHit(st) ==
    IF EllipsisSearch(Strip(st.original))
       /\ \E w \in SARCASM_WORDS : w \in Range(st.pos_hits \o st.neg_hits)
    THEN [st EXCEPT !.score = FSub(@, D_0_4)]
    ELSE st

\* Lines 158-160.
EllipsisDampen(st) ==
    IF EllipsisSearch(Strip(st.original))
       /\ \E w \in SARCASM_WORDS : w \in Range(st.pos_hits)
    THEN [st EXCEPT !.score = FSub(@, D_0_4)]
    ELSE st

PolarityIdioms_Mut(st) ==
    LET s1 == IF NotBadSearch(st.lowered) /\ (NEGATED_PREFIX \o S_bad) \notin Range(st.flipped_hits)
              THEN [st EXCEPT !.score = FAdd(@, D_1_0),
                              !.pos_hits = Append(@, TAG_not_bad)]
              ELSE st
    IN  IF NotGoodSearch(st.lowered) /\ (NEGATED_PREFIX \o S_good) \notin Range(st.flipped_hits)
        THEN [s1 EXCEPT !.score = FSub(@, D_1_0),
                        !.neg_hits = Append(@, TAG_not_good)]
        ELSE s1

\* Lines 163-168.
PolarityIdioms(st) ==
    LET s1 == IF NotBadSearch(st.lowered)
              THEN [st EXCEPT !.score = FAdd(@, D_1_0),
                              !.pos_hits = Append(@, TAG_not_bad)]
              ELSE st
    IN  IF NotGoodSearch(st.lowered)
        THEN [s1 EXCEPT !.score = FSub(@, D_1_0),
                        !.neg_hits = Append(@, TAG_not_good)]
        ELSE s1

\* Lines 171-175.
LabelOf(score) ==
    IF FGe(score, D_0_5) THEN "positive"
    ELSE IF FLe(score, FNeg(D_0_5)) THEN "negative"
    ELSE "neutral"

LabelDecision(st) == [st EXCEPT !.label = LabelOf(st.score)]

\* Lines 177-187: the value returned; the score of the evidence record is
\* round(score, 3) in thousandths, each sorted(set(...)) is the set itself.
ReturnValue(st, return_evidence) ==
    IF return_evidence
    THEN << st.label,
            [ score |-> Round3(st.score),
              positive_hits |-> Range(st.pos_hits),
              negative_hits |-> Range(st.neg_hits),
              flipped_by_negation |-> Range(st.flipped_hits),
              intensified |-> Range(st.intens_hits),
              diminished |-> Range(st.dim_hits),
              emoji |-> st.emo_hits ] >>
    ELSE << st.label >>

\* Line 77: the value returned for a blank text.
EarlyReturnValue(return_evidence) ==
    IF return_evidence THEN << "neutral", [score |-> 0] >> ELSE << "neutral" >>

\* ------------------------------------------------------------------------
\* Inputs
\* ------------------------------------------------------------------------

MaxBlank == 2
MaxScope == 5
MaxMod == 3
MaxIdiom == 4
MaxThreshold == 3
MaxAfter == 3
MaxAmb == 3
MaxEmoji == 3

SeqsUpTo(S, n) == UNION { [1..k -> S] : k \in 0..n }

\* Concatenation of a sequence of strings.
RECURSIVE Concat(_)
Concat(ps) == IF ps = << >> THEN << >> ELSE Head(ps) \o Concat(Tail(ps))

W_great == <<"g", "r", "e", "a", "t">>
W_kinda == <<"k", "i", "n", "d", "a">>
W_x == <<"x">>
W_sick == <<"s", "i", "c", "k">>
W_lunch == <<"l", "u", "n", "c", "h">>
W_winter == <<"w", "i", "n", "t", "e", "r">>
W_forgot == <<"f", "o", "r", "g", "o", "t">>
W_fr == <<"f", "r">>
W_for_real == <<"f", "o", "r", " ", "r", "e", "a", "l">>
T_bang == <<"!">>
T_dots == <<".", ".", ".">>
T_glyph == <<"U+2026">>

\* Empty and whitespace-only texts.
BlankTexts == SeqsUpTo({ " ", "\t" }, MaxBlank)

\* Negation scope: a negator at every distance from a lexicon word.
ScopeTexts == { Join(ws) : ws \in SeqsUpTo({ S_not, W_x, W_great }, MaxScope) }

\* Negators, intensifiers and diminishers around lexicon words, with and
\* without a trailing ellipsis.
ModTexts ==
    { Join(ws) \o tl : ws \in SeqsUpTo({ S_not, S_so, W_kinda, W_great, S_bad }, MaxMod),
                       tl \in { << >>, T_dots, T_glyph } }

\* The polarity-flip idioms, once and repeated, among scored words.
IdiomTexts == { Join(ws) : ws \in SeqsUpTo({ S_not, S_so, S_good, S_bad }, MaxIdiom) }

\* Sums that land on a threshold: the harsh idiom, scored words and one
\* exclamation mark.
ThresholdTexts ==
    { S_shut_up \o << " " >> \o Join(ws) \o T_bang :
        ws \in SeqsUpTo({ S_good, S_so, S_bad }, MaxThreshold) }

\* What follows "Shut up": markers and event words, joined with and without
\* separating spaces.
ShutUpTexts ==
    { <<"S", "h", "u", "t", " ", "u", "p">> \o Concat(ps) :
        ps \in SeqsUpTo({ <<" ">>, W_x, W_fr, <<" ">> \o W_for_real, <<" ">> \o W_forgot,
                          <<" ">> \o W_lunch }, MaxAfter) }

\* The context-sensitive slang words and their forward context.
AmbTexts ==
    { Join(ws) \o tl : ws \in SeqsUpTo({ W_sick, W_x, W_lunch, W_winter, S_bad }, MaxAmb),
                       tl \in { << >>, T_bang } }

\* Emoji code points: U+1F642 is a positive emoji, U+1F61E a negative one,
\* U+2764 U+FE0F the two code points of the heart entry.
EmojiTexts == SeqsUpTo({ "U+1F642", "U+1F61E", "U+2764", "U+FE0F", "x" }, MaxEmoji)

\* The sample statements of the documentation and DEFAULT_TEXT (line 190).
SampleTexts ==
    { <<"T", "h", "i", "s", " ", "i", "s", " ", "g", "r", "e", "a", "t">>,
      <<"T", "h", "i", "s", " ", "i", "s", " ", "t", "e", "r", "r", "i", "b", "l", "e">>,
      <<"T", "h", "i", "s", " ", "i", "s", " ", "n", "o", "t", " ", "g", "r", "e", "a", "t">>,
      <<"T", "h", "i", "s", " ", "i", "s", " ", "v", "e", "r", "y", " ", "g", "r", "e", "a", "t">>,
      <<"S", "h", "u", "t", " ", "u", "p", "!", " ", "D", "i", "d", " ", "y", "o", "u", " ", "r", "e", "a", "l", "l", "y", " ", "b", "u", "y", " ", "m", "e", " ", "l", "u", "n", "c", "h", "?">>,
      <<"T", "h", "a", "t", "'", "s", " ", "g", "r", "e", "a", "t", ".", ".", ".">>,
      <<"T", "h", "a", "t", "'", "s", " ", "g", "r", "e", "a", "t">> }

Texts ==
    BlankTexts \cup ScopeTexts \cup ModTexts \cup IdiomTexts \cup ThresholdTexts
        \cup ShutUpTexts \cup AmbTexts \cup EmojiTexts \cup SampleTexts

\* ------------------------------------------------------------------------
\* The call classify_sentiment(text, return_evidence), step by step
\* ------------------------------------------------------------------------

VARIABLES
    text,       \* the argument
    pc,         \* the position in classify_sentiment
    st,         \* its local variables
    result,     \* << >> until it returns, then <<label>> or <<label, evidence>>
    perturbed   \* the evidence bucket an observer overwrote, or "none"

vars == << text, pc, st, result, perturbed >>

Init ==
    /\ text \in Texts
    /\ pc = "entry"
    /\ st = NoLocals
    /\ result = << >>
    /\ perturbed = "none"

\* Lines 76-77.
EarlyReturn ==
    /\ pc = "entry"
    /\ IsBlank(text)
    /\ \E return_evidence \in BOOLEAN : result' = EarlyReturnValue(return_evidence)
    /\ pc' = "done"
    /\ UNCHANGED << text, st, perturbed >>

\* Lines 79-85.
Start ==
    /\ pc = "entry"
    /\ ~IsBlank(text)
    /\ st' = Setup(text)
    /\ pc' = "shutup"
    /\ UNCHANGED << text, result, perturbed >>

\* Lines 89-99.
DoShutUpIdiom ==
    /\ pc = "shutup"
    /\ st' = ShutUpIdiom(st)
    /\ pc' = IF Len(st.words) = 0 THEN "emoji" ELSE "loop"
    /\ UNCHANGED << text, result, perturbed >>

\* Lines 103-141, one iteration.
DoScoreWord ==
    /\ pc = "loop"
    /\ st.i < Len(st.words)
    /\ st' = ScoreWord(st)
    /\ pc' = IF st.i + 1 = Len(st.words) THEN "emoji" ELSE "loop"
    /\ UNCHANGED << text, result, perturbed >>

\* Lines 144-150.
DoEmojiPass ==
    /\ pc = "emoji"
    /\ st' = EmojiPass(st)
    /\ pc' = "exclaim"
    /\ UNCHANGED << text, result, perturbed >>

\* Lines 153-155.
DoExclamationBoost ==
    /\ pc = "exclaim"
    /\ st' = ExclamationBoost(st)
    /\ pc' = "ellipsis"
    /\ UNCHANGED << text, result, perturbed >>

\* Lines 158-160.
DoEllipsisDampen ==
    /\ pc = "ellipsis"
    /\ st' = EllipsisDampen(st)
    /\ pc' = "idioms"
    /\ UNCHANGED << text, result, perturbed >>

\* Lines 163-168.
DoPolarityIdioms ==
    /\ pc = "idioms"
    /\ st' = PolarityIdioms(st)
    /\ pc' = "label"
    /\ UNCHANGED << text, result, perturbed >>

\* Lines 171-175.
DoLabelDecision ==
    /\ pc = "label"
    /\ st' = LabelDecision(st)
    /\ pc' = "return"
    /\ UNCHANGED << text, result, perturbed >>

\* Lines 177-187.
Return ==
    /\ pc = "return"
    /\ \E return_evidence \in BOOLEAN : result' = ReturnValue(st, return_evidence)
    /\ pc' = "done"
    /\ UNCHANGED << text, st, perturbed >>

Next ==
    \/ EarlyReturn
    \/ Start
    \/ DoShutUpIdiom
    \/ DoScoreWord
    \/ DoEmojiPass
    \/ DoExclamationBoost
    \/ DoEllipsisDampen
    \/ DoPolarityIdioms
    \/ DoLabelDecision
    \/ Return

Spec == Init /\ [][Next]_vars

\* ------------------------------------------------------------------------
\* The call as a whole
\* ------------------------------------------------------------------------

\* Lines 103-141: the scoring loop from index st.i to the last word.
RECURSIVE ScoreLoop(_)
ScoreLoop(loc) == IF loc.i >= Len(loc.words) THEN loc ELSE ScoreLoop(ScoreWord(loc))

\* Lines 79-175: the locals of a non-blank text when the label is decided.
Classify(t) ==
    LabelDecision(PolarityIdioms(EllipsisDampen(ExclamationBoost(
        EmojiPass(ScoreLoop(ShutUpIdiom(Setup(t))))))))

\* The score of the evidence record for any text, in thousandths.
ReportedScore(t) == IF IsBlank(t) THEN 0 ELSE Round3(Classify(t).score)

\* ------------------------------------------------------------------------
\* A second run that differs in what an evidence bucket holds
\* ------------------------------------------------------------------------

Buckets == { "pos_hits", "neg_hits", "flipped_hits", "intens_hits", "dim_hits", "emo_hits" }

\* What a bucket is overwritten with: nothing, or one entry.
BucketValues(b) == IF b = "emo_hits" THEN { << >>, << "U+1F642" >> } ELSE { << >>, << W_great >> }

\* The contents of one bucket are replaced, once, before or after the
\* scoring loop; nothing else of the run is touched.
Perturb ==
    /\ perturbed = "none"
    /\ pc \in { "shutup", "emoji" }
    /\ \E b \in Buckets : \E v \in BucketValues(b) :
          /\ st[b] # v
          /\ st' = [st EXCEPT ![b] = v]
          /\ perturbed' = b
    /\ UNCHANGED << text, pc, result >>

InitNI ==
    /\ text \in BlankTexts \cup ModTexts \cup SampleTexts
    /\ pc = "entry"
    /\ st = NoLocals
    /\ result = << >>
    /\ perturbed = "none"

NextNI == Next \/ Perturb

SpecNI == InitNI /\ [][NextNI]_vars

\* ------------------------------------------------------------------------
\* Properties
\* ------------------------------------------------------------------------

WithEvidence == pc = "done" /\ Len(result) = 2

\* C1: the returned label is fixed by the score the evidence record reports:
\* positive iff score >= 0.5, negative iff score <= -0.5, neutral iff the
\* score lies strictly between the two thresholds.
C1_LabelScoreConsistent ==
    WithEvidence =>
        LET lab == result[1]
            s == result[2].score
        IN  /\ lab \in { "positive", "negative", "neutral" }
            /\ (lab = "positive") <=> (s >= 500)
            /\ (lab = "negative") <=> (s <= -500)
            /\ (lab = "neutral") <=> (-500 < s /\ s < 500)

EvidenceSets ==
    { "positive_hits", "negative_hits", "flipped_by_negation", "intensified", "diminished" }

\* C2: a blank text returns neutral with score 0.0 before any scoring pass
\* has run, and the evidence record reports every collection as empty.
C2_BlankEvidenceEmpty ==
    (WithEvidence /\ IsBlank(text)) =>
        /\ result[1] = "neutral"
        /\ result[2].score = 0
        /\ st = NoLocals
        /\ \A k \in EvidenceSets : k \in DOMAIN result[2] /\ result[2][k] = { }
        /\ "emoji" \in DOMAIN result[2] /\ result[2]["emoji"] = << >>

\* The state right after the shut-up rule, before the scoring loop has
\* touched the score.
AfterShutUpRule == (pc = "loop" /\ st.i = 0) \/ (pc = "emoji" /\ Len(st.words) = 0)

\* "fr" occurs in s with a word boundary on both sides.
StandaloneFr(s) ==
    \E k \in 1..Len(s) :
        MatchAt(s, W_fr, k) /\ WordBoundary(s, k - 1) /\ WordBoundary(s, k + 1)

\* One of the words of s is a positive-event-context word.
EventWordIn(s) == \E w \in Range(FindWords(s, << >>)) : w \in POS_EVENT_WORDS

\* C3: the shut-up rule gives +1.5 and the excited tag iff the text after the
\* first "shut up" holds a disbelief marker ("fr" only as a standalone word)
\* and an event word occurring as a word, -0.2 and the harsh tag iff it holds
\* no event word, nothing otherwise; once at most, never without "shut up".
C3_ShutUpOutcome ==
    AfterShutUpRule =>
        LET present == Contains(st.lowered, S_shut_up)
            after == AfterFirst(st.lowered, S_shut_up)
            marker == \/ \E p \in DISBELIEF_MARKERS \ { W_fr } : Contains(after, p)
                      \/ StandaloneFr(after)
            excited == present /\ marker /\ EventWordIn(after)
            harsh == present /\ ~EventWordIn(after)
        IN  /\ excited => /\ Round3(st.score) = 1500
                          /\ st.pos_hits = << TAG_excited >> /\ st.neg_hits = << >>
            /\ (harsh /\ ~excited) => /\ Round3(st.score) = -200
                                      /\ st.neg_hits = << TAG_harsh >> /\ st.pos_hits = << >>
            /\ (~excited /\ ~harsh) => /\ Round3(st.score) = 0
                                       /\ st.pos_hits = << >> /\ st.neg_hits = << >>

\* The scoring loop is about to handle a word of the positive or negative
\* lexicon.
AtLexiconWord ==
    /\ pc = "loop"
    /\ st.i < Len(st.words)
    /\ st.words[st.i + 1] \in POS_WORDS \cup NEG_WORDS

\* Some word at one of the (at most three) indices before 0-based index i
\* of ws belongs to vocab.
InThreeBefore(ws, i, vocab) ==
    \E j \in 0..(i - 1) : j >= i - 3 /\ ws[j + 1] \in vocab

\* The sign a lexicon word starts with: +1 in the positive lexicon, else -1.
Polarity(w) == IF w \in POS_WORDS THEN 1 ELSE -1

Sign(a) == IF FIsNeg(a) THEN -1 ELSE IF a = D_0_0 THEN 0 ELSE 1

\* C4: in the scoring loop the sign of a lexicon word's base polarity is
\* flipped iff a negator is among the up-to-3 words right before it, and a
\* "negated:<word>" entry is recorded exactly when it is flipped.
C4_NegationWindow ==
    [][ AtLexiconWord =>
          LET i == st.i
              w == st.words[i + 1]
              neg == InThreeBefore(st.words, i, NEGATORS)
          IN  /\ (Sign(st'.base) = -Polarity(w)) <=> neg
              /\ (Sign(st'.base) = Polarity(w)) <=> ~neg
              /\ st'.flipped_hits = IF neg THEN Append(st.flipped_hits, NEGATED_PREFIX \o w)
                                           ELSE st.flipped_hits ]_vars

\* A positive word was just flipped by a negator exactly three words back.
C4_Witness ==
    /\ st.i = 4
    /\ st.words[1] \in NEGATORS
    /\ st.words[2] \notin NEGATORS /\ st.words[3] \notin NEGATORS
    /\ st.words[4] = W_great
    /\ st.flipped_hits = << NEGATED_PREFIX \o W_great >>
    /\ Sign(st.base) = -1

\* 1-based position in s of the first character of its n-th word (n >= 1).
IsWordStart(s, k) ==
    IsWordPatternChar(s[k]) /\ (k = 1 \/ ~IsWordPatternChar(s[k - 1]))

WordStart(s, n) ==
    CHOOSE k \in 1..Len(s) :
        IsWordStart(s, k) /\ Cardinality({ j \in 1..k : IsWordStart(s, j) }) = n

\* The text t with the word v and a space put right before its n-th word.
WithWordBefore(t, n, v) ==
    LET k == WordStart(t, n)
    IN  SubSeq(t, 1, k - 1) \o v \o << " " >> \o SubSeq(t, k, Len(t))

Modifiers == NEGATORS \cup INTENSIFIERS \cup DIMINISHERS

\* The magnitude, in thousandths, the loop gives a lexicon word whose window
\* holds an intensifier (hasI) and/or a diminisher (hasD).
ScaledMagnitude(hasI, hasD) ==
    IF hasI /\ hasD THEN 975 ELSE IF hasI THEN 1500 ELSE IF hasD THEN 650 ELSE 1000

\* Per word: the contribution has the magnitude fixed by the modifiers in its
\* window and the sign fixed by polarity and negation, and it is what the
\* score moves by.
ScalingStep ==
    AtLexiconWord =>
        LET i == st.i
            w == st.words[i + 1]
            sgn == IF InThreeBefore(st.words, i, NEGATORS) THEN -Polarity(w) ELSE Polarity(w)
            mag == ScaledMagnitude(InThreeBefore(st.words, i, INTENSIFIERS),
                                   InThreeBefore(st.words, i, DIMINISHERS))
        IN  /\ Sign(st'.base) = sgn
            /\ Round3(FAbs(st'.base)) = mag
            /\ Round3(st'.score) = Round3(st.score) + sgn * mag

\* For a decided text t holding no modifier word: putting intensifier v before
\* its n-th word, a positive word, strictly raises the score (loc is the run
\* on t).  With guarded, only where no negative-lexicon word is among the
\* three words that follow v.
IntensifierRaises(t, loc, guarded) ==
    (\A k \in 1..Len(loc.words) : loc.words[k] \notin Modifiers) =>
        \A n \in 1..Len(loc.words) :
            (/\ loc.words[n] \in POS_WORDS
             /\ guarded => \A m \in (n + 1)..(n + 2) :
                               m <= Len(loc.words) => loc.words[m] \notin NEG_WORDS) =>
                \A v \in INTENSIFIERS :
                    FGt(Classify(WithWordBefore(t, n, v)).score, loc.score)

\* C5 as stated: magnitudes 1.0 / 1.5 / 0.65 / 0.975 by the window's
\* modifiers, sign untouched by scaling, so adding an intensifier before a
\* positive word of an otherwise unmodified text strictly raises the score.
C5_ScalingAsStated ==
    [][ /\ ScalingStep
        /\ (pc' = "return" /\ pc = "label") => IntensifierRaises(text', st', FALSE) ]_vars

\* C5 amended: the same, the score being raised provided no negative-lexicon
\* word is among the three words that follow the added intensifier.
C5_Scaling ==
    [][ /\ ScalingStep
        /\ (pc' = "return" /\ pc = "label") => IntensifierRaises(text', st', TRUE) ]_vars

\* A word was just scored under both an intensifier and a diminisher.
C5_Witness ==
    /\ pc \in { "loop", "emoji" }
    /\ st.i >= 3
    /\ st.words[st.i] = W_great
    /\ InThreeBefore(st.words, st.i - 1, INTENSIFIERS)
    /\ InThreeBefore(st.words, st.i - 1, DIMINISHERS)
    /\ Round3(FAbs(st.base)) = 975

\* s, trimmed, ends in three dots or in the ellipsis glyph.
EndsInEllipsis(s) ==
    LET t == Strip(s)
    IN  \/ Len(t) >= 3 /\ t[Len(t)] = "." /\ t[Len(t) - 1] = "." /\ t[Len(t) - 2] = "."
        \/ Len(t) >= 1 /\ t[Len(t)] = "U+2026"

\* One of great, awesome, amazing, perfect, nice is among the hits.
SarcasmHit(hits) == \E k \in 1..Len(hits) : hits[k] \in SARCASM_WORDS

\* C6: the dampening takes exactly 0.4 off the score, once, iff the trimmed
\* text ends in an ellipsis and the loop's positive hits hold one of the five
\* words; so for a text t not ending in an ellipsis, score(t + "...") is
\* score(t) - 0.4 when t has such a positive hit and score(t) when it has not.
C6_EllipsisDampening ==
    [][ /\ pc = "ellipsis" =>
              /\ Round3(st'.score) =
                    Round3(st.score)
                      - (IF EndsInEllipsis(text) /\ SarcasmHit(st.pos_hits) THEN 400 ELSE 0)
              /\ st'.pos_hits = st.pos_hits
        /\ (pc = "label" /\ pc' = "return" /\ ~EndsInEllipsis(text)) =>
              \A e \in { T_dots, T_glyph } :
                  ReportedScore(text \o e) =
                      Round3(st'.score) - (IF SarcasmHit(st'.pos_hits) THEN 400 ELSE 0)
        /\ (pc = "entry" /\ pc' = "done") =>
              \A e \in { T_dots, T_glyph } : ReportedScore(text \o e) = 0 ]_vars

\* The dampening has just been applied to a text whose only scored word is
\* a positive "great".
C6_Witness ==
    /\ pc = "idioms"
    /\ EndsInEllipsis(text)
    /\ st.pos_hits = << W_great >>
    /\ Round3(st.score) = 600

\* The occurrences in s, from position k on, of entries of the two emoji
\* lexicons, in order of position, each as the entry that occurs.
RECURSIVE EmojiOccurrences(_, _)
EmojiOccurrences(s, k) ==
    IF k > Len(s) THEN << >>
    ELSE IF \E e \in POS_EMOJI \cup NEG_EMOJI : MatchAt(s, e, k)
         THEN LET e == CHOOSE e \in POS_EMOJI \cup NEG_EMOJI : MatchAt(s, e, k)
              IN  << e >> \o EmojiOccurrences(s, k + Len(e))
         ELSE EmojiOccurrences(s, k + 1)

CountIn(occ, lexicon) == Cardinality({ k \in 1..Len(occ) : occ[k] \in lexicon })

\* C7: the emoji pass adds 0.6 per occurrence of a positive-emoji entry in
\* the raw text, takes off 0.6 per occurrence of a negative-emoji entry, and
\* lists exactly those occurrences in order, duplicates kept.
C7_EmojiAdjustment ==
    [][ pc = "emoji" =>
          LET occ == EmojiOccurrences(text, 1)
          IN  /\ Round3(st'.score) =
                    Round3(st.score) + 600 * CountIn(occ, POS_EMOJI)
                                     - 600 * CountIn(occ, NEG_EMOJI)
              /\ [k \in 1..Len(st'.emo_hits) |-> << st'.emo_hits[k] >>] = occ ]_vars

\* C8 as stated: whatever an evidence bucket is made to hold during the
\* run, the score and the label come out as in the undisturbed run.
C8_EvidenceNeverFeedsBack ==
    pc = "return" =>
        /\ st.score = Classify(text).score
        /\ st.label = Classify(text).label

\* C8 amended: that holds for every bucket but the positive hits, which the
\* ellipsis dampening reads; a run whose positive hits differ ends with a
\* score that differs by the 0.4 of the dampening or not at all.
C8_OnlyPositiveHitsFeedBack ==
    pc = "return" =>
        /\ perturbed # "pos_hits" =>
              /\ st.score = Classify(text).score
              /\ st.label = Classify(text).label
        /\ perturbed = "pos_hits" =>
              Round3(st.score) - Round3(Classify(text).score) \in { -400, 0, 400 }

\* A run that was dampened while one of the other buckets had been
\* overwritten.
C8_Witness ==
    /\ pc = "return"
    /\ perturbed \in Buckets \ { "pos_hits" }
    /\ EndsInEllipsis(text)
    /\ SarcasmHit(st.pos_hits)
    /\ Round3(st.score) = 600

\* The forward context that resolves the ambiguous word at 0-based index i:
\* an event word or a positive-lexicon word among the next 5 words, or an
\* exclamation mark within the 80 characters after the occurrence.
ResolvedByContext(t, ws, i) ==
    LET last == WordStart(t, i + 1) + Len(ws[i + 1]) - 1
    IN  \/ \E j \in (i + 1)..(i + 5) :
              j < Len(ws) /\ ws[j + 1] \in POS_EVENT_WORDS \cup POS_WORDS
        \/ \E k \in (last + 1)..(last + 80) : k <= Len(t) /\ t[k] = "!"

\* C9: a word of {sick, crazy, insane, ridiculous, wild} has no polarity of
\* its own: an occurrence that its forward context does not resolve leaves
\* the score and every evidence bucket as they were.
C9_AmbiguousNeedsContext ==
    [][ (/\ pc = "loop"
         /\ st.i < Len(st.words)
         /\ st.words[st.i + 1] \in AMBIGUOUS
         /\ ~ResolvedByContext(text, st.words, st.i)) =>
            /\ st'.score = st.score
            /\ \A b \in Buckets : st'[b] = st[b] ]_vars

\* The score, in thousandths, that one pass gives when run alone on the
\* freshly set-up text t.
LoopAlone(t) == Round3(ScoreLoop(Setup(t)).score)
ShutUpAlone(t) == Round3(ShutUpIdiom(Setup(t)).score)
EmojiAlone(t) == Round3(EmojiPass(Setup(t)).score)
ExclamationAlone(t) == Round3(ExclamationBoost(Setup(t)).score)
PolarityIdiomsAlone(t) == Round3(PolarityIdioms(Setup(t)).score)

\* C10: the polarity-flip idioms are an additive layer: the final score is
\* the loop's sum plus the idiom deltas plus the punctuation and emoji deltas;
\* "not bad" adds +1.0 and its tag, "not good" / "not so good" -1.0 and its
\* tag, each once however often it occurs; and the loop scores "bad" and
\* "good" from their window alone, idiom or no idiom.
C10_IdiomsAdditive ==
    [][ /\ pc = "idioms" =>
              LET nb == NotBadSearch(st.lowered)
                  ng == NotGoodSearch(st.lowered)
              IN  /\ Round3(st'.score) = Round3(st.score) + (IF nb THEN 1000 ELSE 0)
                                                          - (IF ng THEN 1000 ELSE 0)
                  /\ st'.pos_hits = IF nb THEN Append(st.pos_hits, TAG_not_bad)
                                          ELSE st.pos_hits
                  /\ st'.neg_hits = IF ng THEN Append(st.neg_hits, TAG_not_good)
                                          ELSE st.neg_hits
                  /\ PolarityIdiomsAlone(text) = (IF nb THEN 1000 ELSE 0)
                                                   - (IF ng THEN 1000 ELSE 0)
        /\ (pc = "label" /\ pc' = "return") =>
              Round3(st'.score) =
                  LoopAlone(text) + ShutUpAlone(text) + PolarityIdiomsAlone(text)
                    + EmojiAlone(text) + ExclamationAlone(text)
                    - (IF EndsInEllipsis(text)
                          /\ SarcasmHit(ScoreLoop(Setup(text)).pos_hits) THEN 400 ELSE 0)
        /\ (AtLexiconWord /\ st.words[st.i + 1] \in { S_bad, S_good }) =>
              LET i == st.i
                  w == st.words[i + 1]
                  flip == \E j \in 1..3 : i - j >= 0 /\ st.words[i - j + 1] \in NEGATORS
                  mag == ScaledMagnitude(InThreeBefore(st.words, i, INTENSIFIERS),
                                         InThreeBefore(st.words, i, DIMINISHERS))
                  own == (IF w = S_good THEN 1 ELSE -1) * (IF flip THEN -1 ELSE 1) * mag
              IN  Round3(st'.score) - Round3(st.score) = own ]_vars

\* "not bad" occurs twice: each "bad" was flipped by the loop and the idiom
\* added its +1.0 once.
C10_Witness ==
    /\ pc = "return"
    /\ st.words = << S_not, S_bad, S_not, S_bad >>
    /\ st.pos_hits = << S_bad, S_bad, TAG_not_bad >>
    /\ Round3(st.score) = 3000

====
